---- MODULE Spec2Model ----
(***************************************************************************)
(* Model of removepassword.py: the pre-consumption script that removes     *)
(* the password protection of PDF files and extracts their embedded PDF    *)
(* attachments.  Strings are tuples of one-character strings so that the   *)
(* path and text conversions (Path(), .suffix, .lower(), splitlines(),     *)
(* strip(), glob) are computed the way pathlib and str compute them.       *)
(***************************************************************************)
EXTENDS Integers, Sequences, FiniteSets, TLC

(* ------------------------------ bounds -------------------------------- *)

\* largest number of lines of the password file
MaxPw == 2
\* largest number of direct children of the target directory
MaxFiles == 2
\* largest number of attachments of one document
MaxAtt == 2
\* largest number of process_pdf_file calls on one file
MaxCalls == 2

(* --------------------------- string helpers --------------------------- *)

Last(s) == s[Len(s)]

Lower(c) ==
    CASE c = "P" -> "p"
      [] c = "D" -> "d"
      [] c = "F" -> "f"
      [] c = "B" -> "b"
      [] OTHER -> c

LowerSeq(s) == [i \in 1..Len(s) |-> Lower(s[i])]

\* str.rfind: the last (1-based) index of ch in s, 0 when absent
RFind(s, ch) ==
    LET hits == {i \in 1..Len(s) : s[i] = ch}
    IN  IF hits = {} THEN 0 ELSE CHOOSE i \in hits : \A j \in hits : j <= i

IsSpace(c) == c \in {" ", "\t"}

RECURSIVE LStrip(_)
LStrip(s) == IF s # <<>> /\ IsSpace(Head(s)) THEN LStrip(Tail(s)) ELSE s

RECURSIVE RStrip(_)
RStrip(s) ==
    IF s # <<>> /\ IsSpace(Last(s)) THEN RStrip(SubSeq(s, 1, Len(s) - 1)) ELSE s

\* str.strip()
Strip(s) == RStrip(LStrip(s))

\* str.splitlines(): the pieces between line breaks, no empty last piece
RECURSIVE SplitLinesAcc(_, _, _)
SplitLinesAcc(s, cur, acc) ==
    IF s = <<>>
    THEN IF cur = <<>> THEN acc ELSE Append(acc, cur)
    ELSE IF Head(s) = "\n"
         THEN SplitLinesAcc(Tail(s), <<>>, Append(acc, cur))
         ELSE SplitLinesAcc(Tail(s), Append(cur, Head(s)), acc)

SplitLines(s) == SplitLinesAcc(s, <<>>, <<>>)

(* ------------------------------ pathlib ------------------------------- *)

\* the components between slashes; pathlib drops empty and "." components
RECURSIVE PartsAcc(_, _, _)
PartsAcc(s, cur, acc) ==
    LET keep == IF cur = <<>> \/ cur = <<".">> THEN acc ELSE Append(acc, cur)
    IN  IF s = <<>> THEN keep
        ELSE IF Head(s) = "/"
             THEN PartsAcc(Tail(s), <<>>, keep)
             ELSE PartsAcc(Tail(s), Append(cur, Head(s)), acc)

\* Path(s)
PathOf(s) == [abs |-> s # <<>> /\ Head(s) = "/", parts |-> PartsAcc(s, <<>>, <<>>)]

\* Path.name: the final component, empty when there is none
PathName(p) == IF p.parts = <<>> THEN <<>> ELSE Last(p.parts)

\* Path.suffix: from the last dot of the name, unless that dot is the first
\* or the last character of the name
PathSuffix(p) ==
    LET name == PathName(p)
        i    == RFind(name, ".")
    IN  IF 1 < i /\ i < Len(name) THEN SubSeq(name, i, Len(name)) ELSE <<>>

\* a / b: an absolute right operand replaces the left one
PathJoin(a, b) ==
    IF b.abs THEN b ELSE [abs |-> a.abs, parts |-> a.parts \o b.parts]

DotPdf == <<".", "p", "d", "f">>

is_pdf(file_path) == LowerSeq(PathSuffix(file_path)) = DotPdf

\* Path.glob("*.pdf") on a POSIX file system: the name ends with ".pdf",
\* compared case-sensitively; a leading dot is matched like any character
GlobMatchesPdf(name) ==
    Len(name) >= 4 /\ SubSeq(name, Len(name) - 3, Len(name)) = DotPdf

(* --------------------------- password source -------------------------- *)

\* get_passwords without the filter of line 173: lines that are empty after
\* the strip stay in the list
get_passwordsKeepsEmpty(text) ==
    [i \in 1..Len(SplitLines(text)) |-> Strip(SplitLines(text)[i])]

\* get_passwords applied to the text of the password file
get_passwords(text) ==
    LET stripped == [i \in 1..Len(SplitLines(text)) |-> Strip(SplitLines(text)[i])]
    IN  SelectSeq(stripped, LAMBDA p : Len(p) > 0)

\* the lines a password file is written from
PwLines == { <<"x">>, <<" ", "y">>, <<"x", " ">>, <<>> }

RECURSIVE JoinLines(_)
JoinLines(ls) == IF ls = <<>> THEN <<>> ELSE Head(ls) \o <<"\n">> \o JoinLines(Tail(ls))

SeqsUpTo(S, n) == UNION {[1..k -> S] : k \in 0..n}

\* the texts of the password file: each line terminated by a newline
PwTexts == {JoinLines(ls) : ls \in SeqsUpTo(PwLines, MaxPw)}

\* the passwords a document can be protected with
Keys == { <<"x">> }

(* ------------------------------- world -------------------------------- *)

\* names of the files that can be the target or lie in the target directory
FileNames == { <<"a", ".", "p", "d", "f">>,
               <<"b", ".", "p", "d", "f">>,
               <<"B", ".", "P", "D", "F">>,
               <<"n", ".", "t", "x", "t">>,
               <<".", "p", "d", "f">> }

\* names of the direct children the target directory can have: two names the
\* glob of line 204 matches and one it only matches when case is ignored
ChildNames == { <<"a", ".", "p", "d", "f">>,
                <<"b", ".", "p", "d", "f">>,
                <<"B", ".", "P", "D", "F">> }

\* the target directory and the consume directory
InDir      == PathOf(<<"/", "i">>)
ConsumeDir == PathOf(<<"/", "c">>)

FileTargets == {PathJoin(InDir, PathOf(n)) : n \in FileNames}
MissingPath == PathOf(<<"/", "m">>)

\* the values of DOCUMENT_WORKING_PATH and of the positional argument: not
\* given at all (None), or a text, possibly the empty one
NotGiven    == [given |-> FALSE, text |-> <<>>]
Given(text) == [given |-> TRUE, text |-> text]

EnvValues == {NotGiven, Given(<<>>), Given(<<"/", "m">>),
              Given(<<"/", "i", "/", "n", ".", "t", "x", "t">>)}
ArgValues == {NotGiven, Given(<<"/", "i">>)}
             \cup {Given(<<"/", "i", "/">> \o n) : n \in FileNames}

\* the invocations: every argument without the variable, and the variable in
\* each of its forms with and without an argument
Invocations ==
    {[env |-> NotGiven, arg |-> a] : a \in ArgValues}
    \cup {[env |-> e, arg |-> a] :
            e \in EnvValues,
            a \in {NotGiven, Given(<<"/", "i", "/", "n", ".", "t", "x", "t">>),
                             Given(<<"/", "i", "/", ".", "p", "d", "f">>)}}

\* truth value of an optional string: None and "" are false
Truthy(v) == v.given /\ v.text # <<>>

\* src_file_path = None
None == [none |-> TRUE]

\* the filenames stored in attachment records: a PDF name, another name and
\* an absolute name, which is also the path of a source the script is given
AttNames == { <<"B", ".", "P", "D", "F">>,
              <<"n", ".", "t", "x", "t">>,
              <<"/", "i", "/", "a", ".", "p", "d", "f">> }

\* what a document on disk can be:
\*   plain     opens without a password, not encrypted
\*   locked    encrypted, opens only with its key
\*   owneronly encrypted, opens without a password (empty user password)
\*   broken    cannot be opened at all (corrupt, unreadable, a directory)
\* rev counts the times pikepdf saved the document over itself
Docs == [kind : {"plain", "broken"}, key : {<<>>}, natt : 0..MaxAtt, rev : {0}]
        \cup [kind : {"locked", "owneronly"}, key : Keys, natt : 0..MaxAtt, rev : {0}]

NoDoc == [kind |-> "none", key |-> <<>>, natt |-> 0, rev |-> 0]

\* an attachment record of the embedded-file tree:
\*   ok        the record resolves to a filename and a content stream
\*   missing   ats.get returns None
\*   badname   reading spec.filename raises
AttRecs == [kind : {"ok"}, name : AttNames]
           \cup {[kind |-> "missing", name |-> <<>>], [kind |-> "badname", name |-> <<>>]}

\* content of a file of the destination file system: the bytes of attachment
\* idx of the document named src, or nothing (a file created and left empty)
Bytes(src, idx) == [src |-> src, idx |-> idx]
EmptyFile       == [src |-> <<>>, idx |-> 0]

(* ------------------------------- state -------------------------------- *)

VARIABLES
    pc,             \* position of the script
    env,            \* os.environ["DOCUMENT_WORKING_PATH"]
    arg,            \* args.file_or_dir
    src_file_path,  \* the resolved target, None before resolution
    passwords,      \* the list get_passwords returned
    loads,          \* number of completed reads of the password file
    pw_text,        \* the text of the password file where a run fixes it in
                    \* advance (SpecPasswords), empty where get_passwords
                    \* reads an arbitrary text
    inspected,      \* the target has been looked at (is_file / is_dir / open)
    mode,           \* "file" or "dir" once the target is dispatched
    pending,        \* results of glob("*.pdf") not yet processed
    children,       \* names of the direct children of the target directory
    finished,       \* paths for which process_pdf_file returned
    file_path,      \* argument of the running process_pdf_file
    calls,          \* number of process_pdf_file calls made on file_path
    doc,            \* the document stored at file_path
    orig,           \* the document at file_path when process_pdf_file began
    pwi,            \* number of passwords unlock_pdf has gone through
    success,        \* unlock_pdf's success flag
    atts,           \* pdf.attachments of the document being extracted from
    ai,             \* number of attachments the extraction has dealt with
    trg_file_path,  \* destination of the attachment being written
    written,        \* files the running process_pdf_file created or
                    \* overwrote outside the source: path -> content
    log,            \* what process_pdf_file did to the current file, in order
    handles,        \* number of open pikepdf document handles
    exc             \* the exception that ended the script, "" if none

vars == <<pc, env, arg, src_file_path, passwords, loads, pw_text, inspected,
          mode, pending, children, finished, file_path, calls, doc, orig, pwi,
          success, atts, ai, trg_file_path, written, log, handles, exc>>

runVars  == <<env, arg, src_file_path, passwords, loads, pw_text>>
fileVars == <<file_path, calls, doc, orig, pwi, success, atts, ai, trg_file_path,
             written, log>>
dirVars  == <<mode, pending, children, finished>>

Init ==
    /\ pc = "resolve"
    /\ \E i \in Invocations : env = i.env /\ arg = i.arg
    /\ src_file_path = None
    /\ passwords = <<>>
    /\ loads = 0
    /\ pw_text = <<>>
    /\ inspected = FALSE
    /\ mode = ""
    /\ pending = {}
    /\ children = {}
    /\ finished = {}
    /\ file_path = None
    /\ calls = 0
    /\ doc = NoDoc
    /\ orig = NoDoc
    /\ pwi = 0
    /\ success = FALSE
    /\ atts = <<>>
    /\ ai = 0
    /\ trg_file_path = None
    /\ written = <<>>
    /\ log = <<>>
    /\ handles = 0
    /\ exc = ""

(* ------------------------- target and passwords ----------------------- *)

\* lines 183-187 with the two tests in the other order: the argument first
ResolvedTargetArgumentFirst(e, a) ==
    IF Truthy(a) THEN PathOf(a.text)
    ELSE IF Truthy(e) THEN PathOf(e.text)
    ELSE None

\* lines 182-187: the environment variable wins over the argument
ResolvedTarget(e, a) ==
    IF Truthy(e) THEN PathOf(e.text)
    ELSE IF Truthy(a) THEN PathOf(a.text)
    ELSE None

\* lines 182-198 with a target
ResolveTarget ==
    /\ pc = "resolve"
    /\ ResolvedTarget(env, arg) # None
    /\ src_file_path' = ResolvedTarget(env, arg)
    /\ pc' = "load"
    /\ UNCHANGED <<env, pw_text, arg, passwords, loads, inspected, dirVars, fileVars,
                   handles, exc>>

\* lines 196-198: no target, exit(1)
NoTarget ==
    /\ pc = "resolve"
    /\ ResolvedTarget(env, arg) = None
    /\ pc' = "exit1"
    /\ UNCHANGED <<runVars, inspected, dirVars, fileVars, handles, exc>>

\* line 199: the password file is read whole and turned into the list
GetPasswords ==
    /\ pc = "load"
    /\ \E text \in PwTexts : passwords' = get_passwords(text)
    /\ loads' = loads + 1
    /\ pc' = "dispatch"
    /\ UNCHANGED <<env, pw_text, arg, src_file_path, inspected, dirVars, fileVars,
                   handles, exc>>

\* GetPasswordsFails with the exception swallowed: the script goes on with
\* the empty list
GetPasswordsFailsSwallowed ==
    /\ pc = "load"
    /\ pc' = "dispatch"
    /\ UNCHANGED <<runVars, inspected, dirVars, fileVars, handles, exc>>

\* line 172: read_text raises, nothing catches it
GetPasswordsFails ==
    /\ pc = "load"
    /\ pc' = "crashed"
    /\ exc' = "OSError"
    /\ UNCHANGED <<runVars, inspected, dirVars, fileVars, handles>>

(* ------------------------------ dispatch ------------------------------ *)

\* the state of the file variables when process_pdf_file is entered
EnterFile(p, d) ==
    /\ file_path' = p
    /\ calls' = IF p = file_path THEN calls + 1 ELSE 1
    /\ doc' = d
    /\ orig' = d
    /\ pwi' = 0
    /\ success' = FALSE
    /\ atts' = <<>>
    /\ ai' = 0
    /\ trg_file_path' = None
    /\ written' = <<>>
    /\ log' = <<>>

\* lines 200-201: the target is a regular file
DispatchFile ==
    /\ pc = "dispatch"
    /\ src_file_path \in FileTargets
    /\ inspected' = TRUE
    /\ mode' = "file"
    /\ \E d \in Docs : EnterFile(src_file_path, d)
    /\ pc' = "check_pdf"
    /\ UNCHANGED <<runVars, pending, children, finished, handles, exc>>

\* lines 202-204: the target is a directory; glob lists its direct children
DispatchDir ==
    /\ pc = "dispatch"
    /\ src_file_path = InDir
    /\ inspected' = TRUE
    /\ mode' = "dir"
    /\ \E ch \in SUBSET ChildNames :
          /\ Cardinality(ch) <= MaxFiles
          /\ children' = ch
          /\ pending' = {n \in ch : GlobMatchesPdf(n)}
    /\ pc' = "loop"
    /\ UNCHANGED <<runVars, finished, fileVars, handles, exc>>

\* lines 207-209: neither a file nor a directory, exit(1)
DispatchNeither ==
    /\ pc = "dispatch"
    /\ src_file_path \notin FileTargets
    /\ src_file_path # InDir
    /\ inspected' = TRUE
    /\ pc' = "exit1"
    /\ UNCHANGED <<runVars, dirVars, fileVars, handles, exc>>

\* lines 204-206: the next result of the glob, in no particular order
LoopNext ==
    /\ pc = "loop"
    /\ \E n \in pending :
          /\ pending' = pending \ {n}
          /\ \E d \in Docs : EnterFile(PathJoin(src_file_path, PathOf(n)), d)
    /\ pc' = "check_pdf"
    /\ UNCHANGED <<runVars, inspected, mode, children, finished, handles, exc>>

\* the glob is exhausted: the script ends
LoopEnd ==
    /\ pc = "loop"
    /\ pending = {}
    /\ pc' = "done"
    /\ UNCHANGED <<runVars, inspected, dirVars, fileVars, handles, exc>>

\* where control goes when process_pdf_file returns
AfterFile == IF mode = "dir" THEN "loop" ELSE "done"

\* process_pdf_file returns
ReturnFromFile ==
    /\ finished' = finished \cup {file_path}
    /\ pc' = AfterFile

\* an exception nothing catches ends the script
Raise(e) ==
    /\ pc' = "crashed"
    /\ exc' = e

(* ------------------------------- pikepdf ------------------------------ *)

\* pikepdf.open(file_path) without a password: does it return a document
OpensWithoutPassword(d) == d.kind \in {"plain", "owneronly"}

\* pikepdf.open(file_path, password=pw): "ok", or the exception it raises
OpenWithPassword(d, pw) ==
    CASE d.kind = "plain" -> "ok"
      [] d.kind \in {"locked", "owneronly"} ->
            IF pw = d.key THEN "ok" ELSE "PasswordError"
      [] OTHER -> "PdfError"

\* pdf.is_encrypted of an opened document
IsEncrypted(d) == d.kind \in {"locked", "owneronly"}

\* line 75 answering like line 86
EncryptedOnOpenErrorAsAttachments == FALSE

\* line 75: the answer of is_pdf_encrypted when the open raises
EncryptedOnOpenError == TRUE

\* line 86: the answer of pdf_has_attachments when the open raises
AttachmentsOnOpenError == FALSE

\* is_pdf_encrypted, lines 67-75
is_pdf_encrypted(d) ==
    IF OpensWithoutPassword(d) THEN IsEncrypted(d) ELSE EncryptedOnOpenError

\* pdf_has_attachments answered from the document as process_pdf_file found
\* it, before unlock_pdf ran, instead of from the file as it is now
pdf_has_attachmentsBeforeUnlock(d) ==
    IF OpensWithoutPassword(orig) THEN orig.natt > 0 ELSE AttachmentsOnOpenError

\* pdf_has_attachments, lines 78-86
pdf_has_attachments(d) ==
    IF OpensWithoutPassword(d) THEN d.natt > 0 ELSE AttachmentsOnOpenError

\* a save that writes the document back under its encryption
SavedStillEncrypted(d) == [d EXCEPT !.rev = d.rev + 1]

\* pdf.save(file_path, deterministic_id=True): the encryption is removed
Saved(d) == [d EXCEPT !.kind = "plain", !.key = <<>>, !.rev = d.rev + 1]

\* the except clause of unlock_pdf, line 106: is this exception swallowed
UnlockCatches(e) == e = "PasswordError"

(* -------------------------- process_pdf_file -------------------------- *)

Logged(e) == log' = Append(log, e)

\* lines 149-151: not a PDF by extension, return
CheckNotPdf ==
    /\ pc = "check_pdf"
    /\ ~is_pdf(file_path)
    /\ Logged(<<"not_a_pdf">>)
    /\ ReturnFromFile
    /\ UNCHANGED <<runVars, inspected, mode, pending, children, file_path, calls, doc,
                   orig, pwi, success, atts, ai, trg_file_path, written, handles, exc>>

\* CheckIsPdf without the test of line 149
CheckIsPdfAnyName ==
    /\ pc = "check_pdf"
    /\ pc' = "enc_open"
    /\ UNCHANGED <<runVars, inspected, dirVars, fileVars, handles, exc>>

\* line 149 passed, line 153 is next
CheckIsPdf ==
    /\ pc = "check_pdf"
    /\ is_pdf(file_path)
    /\ pc' = "enc_open"
    /\ UNCHANGED <<runVars, inspected, dirVars, fileVars, handles, exc>>

\* process_pdf_file with the test of line 153 dropped: unlock_pdf is called
\* whatever is_pdf_encrypted answered
AfterEncryptedAlwaysUnlocks(r) ==
    /\ Logged(<<"is_pdf_encrypted", r>>)
    /\ pc' = "unlock"

\* the branch of line 153 on the answer r of is_pdf_encrypted
AfterEncrypted(r) ==
    /\ Logged(<<"is_pdf_encrypted", r>>)
    /\ pc' = IF r THEN "unlock" ELSE "att_open"

\* line 72: the open of is_pdf_encrypted returns a document
EncOpen ==
    /\ pc = "enc_open"
    /\ OpensWithoutPassword(doc)
    /\ handles' = handles + 1
    /\ pc' = "enc_read"
    /\ UNCHANGED <<runVars, inspected, dirVars, fileVars, exc>>

\* lines 72, 74-75: the open raises, is_pdf_encrypted answers by default
EncOpenFails ==
    /\ pc = "enc_open"
    /\ ~OpensWithoutPassword(doc)
    /\ AfterEncrypted(is_pdf_encrypted(doc))
    /\ UNCHANGED <<runVars, inspected, dirVars, file_path, calls, doc, orig, pwi,
                   success, atts, ai, trg_file_path, written, handles, exc>>

\* line 73: the flag is read, the with block closes the document
EncRead ==
    /\ pc = "enc_read"
    /\ handles' = handles - 1
    /\ AfterEncrypted(is_pdf_encrypted(doc))
    /\ UNCHANGED <<runVars, inspected, dirVars, file_path, calls, doc, orig, pwi,
                   success, atts, ai, trg_file_path, written, exc>>

(* ----------------------------- unlock_pdf ----------------------------- *)

\* lines 97-101: the next password opens the document
UnlockTryOpens ==
    /\ pc = "unlock"
    /\ pwi < Len(passwords)
    /\ OpenWithPassword(doc, passwords[pwi + 1]) = "ok"
    /\ Logged(<<"try", passwords[pwi + 1]>>)
    /\ pwi' = pwi + 1
    /\ handles' = handles + 1
    /\ pc' = "unlock_save"
    /\ UNCHANGED <<runVars, inspected, dirVars, file_path, calls, doc, orig, success,
                   atts, ai, trg_file_path, written, exc>>

\* lines 97-101, 106-107: the open raises an exception the loop swallows
UnlockTryContinues ==
    /\ pc = "unlock"
    /\ pwi < Len(passwords)
    /\ OpenWithPassword(doc, passwords[pwi + 1]) # "ok"
    /\ UnlockCatches(OpenWithPassword(doc, passwords[pwi + 1]))
    /\ Logged(<<"try", passwords[pwi + 1]>>)
    /\ pwi' = pwi + 1
    /\ UNCHANGED <<pc, runVars, inspected, dirVars, file_path, calls, doc, orig,
                   success, atts, ai, trg_file_path, written, handles, exc>>

\* lines 97-101: the open raises an exception the loop does not catch; it
\* leaves unlock_pdf, process_pdf_file and the script
UnlockTryRaises ==
    /\ pc = "unlock"
    /\ pwi < Len(passwords)
    /\ OpenWithPassword(doc, passwords[pwi + 1]) # "ok"
    /\ ~UnlockCatches(OpenWithPassword(doc, passwords[pwi + 1]))
    /\ Logged(<<"try", passwords[pwi + 1]>>)
    /\ pwi' = pwi + 1
    /\ Raise(OpenWithPassword(doc, passwords[pwi + 1]))
    /\ UNCHANGED <<runVars, inspected, dirVars, file_path, calls, doc, orig, success,
                   atts, ai, trg_file_path, written, handles>>

\* UnlockSave without the break of line 105: the loop goes on to the next
\* password after the save
UnlockSaveNoBreak ==
    /\ pc = "unlock_save"
    /\ doc' = Saved(doc)
    /\ Logged(<<"save">>)
    /\ handles' = handles - 1
    /\ success' = TRUE
    /\ pc' = "unlock"
    /\ UNCHANGED <<runVars, inspected, dirVars, file_path, calls, orig, pwi, atts, ai,
                   trg_file_path, written, exc>>

\* lines 102-105: the document is saved over the source, the with block
\* closes it, success is set and the loop is left
UnlockSave ==
    /\ pc = "unlock_save"
    /\ doc' = Saved(doc)
    /\ Logged(<<"save">>)
    /\ handles' = handles - 1
    /\ success' = TRUE
    /\ pc' = "att_open"
    /\ UNCHANGED <<runVars, inspected, dirVars, file_path, calls, orig, pwi, atts, ai,
                   trg_file_path, written, exc>>

\* line 103 raising with the document opened outside a with block: the
\* exception leaves the script and nothing closes the document
UnlockSaveFailsLeaks ==
    /\ pc = "unlock_save"
    /\ Logged(<<"save_error">>)
    /\ Raise("OSError")
    /\ UNCHANGED <<runVars, inspected, dirVars, file_path, calls, doc, orig, pwi,
                   success, atts, ai, trg_file_path, written, handles>>

\* line 103: the save raises (disk full, read-only directory); pikepdf
\* leaves the source as it was, the with block closes the document and the
\* exception, not a PasswordError, leaves the script
UnlockSaveFails ==
    /\ pc = "unlock_save"
    /\ Logged(<<"save_error">>)
    /\ handles' = handles - 1
    /\ Raise("OSError")
    /\ UNCHANGED <<runVars, inspected, dirVars, file_path, calls, doc, orig, pwi,
                   success, atts, ai, trg_file_path, written>>

\* lines 97, 108-109: the list is exhausted without success
UnlockExhausted ==
    /\ pc = "unlock"
    /\ pwi = Len(passwords)
    /\ ~success
    /\ Logged(<<"unlock_failed">>)
    /\ pc' = "att_open"
    /\ UNCHANGED <<runVars, inspected, dirVars, file_path, calls, doc, orig, pwi,
                   success, atts, ai, trg_file_path, written, handles, exc>>

(* ------------------------- pdf_has_attachments ------------------------ *)

\* the branch of line 159 on the answer r of pdf_has_attachments
AfterAttachments(r) ==
    /\ Logged(<<"pdf_has_attachments", r>>)
    /\ IF r THEN pc' = "ex_open" /\ UNCHANGED finished
            ELSE ReturnFromFile

\* line 83: the open of pdf_has_attachments returns a document
AttOpen ==
    /\ pc = "att_open"
    /\ OpensWithoutPassword(doc)
    /\ handles' = handles + 1
    /\ pc' = "att_read"
    /\ UNCHANGED <<runVars, inspected, dirVars, fileVars, exc>>

\* lines 83, 85-86: the open raises, pdf_has_attachments answers by default
AttOpenFails ==
    /\ pc = "att_open"
    /\ ~OpensWithoutPassword(doc)
    /\ AfterAttachments(pdf_has_attachments(doc))
    /\ UNCHANGED <<runVars, inspected, mode, pending, children, file_path, calls, doc,
                   orig, pwi, success, atts, ai, trg_file_path, written, handles, exc>>

\* line 84: the collection is counted, the with block closes the document
AttRead ==
    /\ pc = "att_read"
    /\ handles' = handles - 1
    /\ AfterAttachments(pdf_has_attachments(doc))
    /\ UNCHANGED <<runVars, inspected, mode, pending, children, file_path, calls, doc,
                   orig, pwi, success, atts, ai, trg_file_path, written, exc>>

(* ----------------------- extract_pdf_attachments ---------------------- *)

\* the attachment the loop of line 121 is at
AttIndex == ai + 1
AttRec   == atts[AttIndex]

\* Path(spec.filename) of an attachment record, line 126
TrgFilename(rec) == PathOf(rec.name)

\* line 127: the record is written out
IsPdfAttachment(rec) == rec.kind = "ok" /\ is_pdf(TrgFilename(rec))

\* line 128
TrgFilePath(rec) == PathJoin(ConsumeDir, TrgFilename(rec))

\* lines 119-120: the document is opened for the extraction and its
\* attachment collection taken; an open that raises leaves the script
ExOpen ==
    /\ pc = "ex_open"
    /\ IF OpensWithoutPassword(doc)
       THEN /\ handles' = handles + 1
            /\ \E as \in [1..doc.natt -> AttRecs] : atts' = as
            /\ ai' = 0
            /\ Logged(<<"extract">>)
            /\ pc' = "ex_iter"
            /\ UNCHANGED exc
       ELSE /\ Raise("PdfError")
            /\ UNCHANGED <<handles, atts, ai, log>>
    /\ UNCHANGED <<runVars, inspected, dirVars, file_path, calls, doc, orig, pwi,
                   success, trg_file_path, written>>

\* lines 121-125: ats.get returns None, the attachment is passed over
ExMissing ==
    /\ pc = "ex_iter"
    /\ ai < Len(atts)
    /\ AttRec.kind = "missing"
    /\ Logged(<<"unresolved", AttIndex>>)
    /\ ai' = ai + 1
    /\ UNCHANGED <<pc, runVars, inspected, dirVars, file_path, calls, doc, orig, pwi,
                   success, atts, trg_file_path, written, handles, exc>>

\* line 126: reading the filename of the record raises; no try encloses the
\* line, so the with block closes the document and the exception leaves
\* extract_pdf_attachments, process_pdf_file and the script
ExBadName ==
    /\ pc = "ex_iter"
    /\ ai < Len(atts)
    /\ AttRec.kind = "badname"
    /\ Logged(<<"name_error", AttIndex>>)
    /\ handles' = handles - 1
    /\ Raise("Exception")
    /\ UNCHANGED <<runVars, inspected, dirVars, file_path, calls, doc, orig, pwi,
                   success, atts, ai, trg_file_path, written>>

\* lines 126-127, 136-139: the filename is not a PDF name, skip
ExSkip ==
    /\ pc = "ex_iter"
    /\ ai < Len(atts)
    /\ AttRec.kind = "ok"
    /\ ~is_pdf(TrgFilename(AttRec))
    /\ Logged(<<"skipped", AttIndex>>)
    /\ ai' = ai + 1
    /\ UNCHANGED <<pc, runVars, inspected, dirVars, file_path, calls, doc, orig, pwi,
                   success, atts, trg_file_path, written, handles, exc>>

\* lines 126-128: the filename is a PDF name, the destination is computed
ExAccept ==
    /\ pc = "ex_iter"
    /\ ai < Len(atts)
    /\ AttRec.kind = "ok"
    /\ is_pdf(TrgFilename(AttRec))
    /\ trg_file_path' = TrgFilePath(AttRec)
    /\ pc' = "ex_write"
    /\ UNCHANGED <<runVars, inspected, dirVars, file_path, calls, doc, orig, pwi,
                   success, atts, ai, written, log, handles, exc>>

\* written with the file at path p now holding content c
WriteFile(p, c) == (p :> c) @@ written

\* line 130 opened on the path of the source itself: what the source can hold
\* afterwards, the bytes written over it read as a document or as none
Overwritten(d) ==
    { [kind |-> k, key |-> <<>>, natt |-> 0, rev |-> 0] :
        k \in {"plain", "broken"} }

\* line 130 opened on the path of the source itself and nothing written
Truncated(d) == [kind |-> "broken", key |-> <<>>, natt |-> 0, rev |-> 0]

\* lines 130-132: the destination is opened, the content read and written
ExWrite ==
    /\ pc = "ex_write"
    /\ written' = WriteFile(trg_file_path, Bytes(PathName(file_path), AttIndex))
    /\ IF trg_file_path = file_path
         THEN doc' \in Overwritten(doc)
         ELSE doc' = doc
    /\ Logged(<<"written", AttIndex>>)
    /\ ai' = ai + 1
    /\ pc' = "ex_iter"
    /\ UNCHANGED <<runVars, inspected, dirVars, file_path, calls, orig, pwi,
                   success, atts, trg_file_path, handles, exc>>

\* lines 130, 133-135: opening the destination raises, nothing is written
ExWriteOpenFails ==
    /\ pc = "ex_write"
    /\ Logged(<<"write_error", AttIndex>>)
    /\ ai' = ai + 1
    /\ pc' = "ex_iter"
    /\ UNCHANGED <<runVars, inspected, dirVars, file_path, calls, doc, orig, pwi,
                   success, atts, trg_file_path, written, handles, exc>>

\* lines 130-135: the destination is opened for writing, which creates or
\* empties it, then reading the content raises
ExWriteReadFails ==
    /\ pc = "ex_write"
    /\ written' = WriteFile(trg_file_path, EmptyFile)
    /\ doc' = IF trg_file_path = file_path THEN Truncated(doc) ELSE doc
    /\ Logged(<<"write_error", AttIndex>>)
    /\ ai' = ai + 1
    /\ pc' = "ex_iter"
    /\ UNCHANGED <<runVars, inspected, dirVars, file_path, calls, orig, pwi,
                   success, atts, trg_file_path, handles, exc>>

\* line 121 is exhausted: the with block of line 119 closes the document
ExEnd ==
    /\ pc = "ex_iter"
    /\ ai = Len(atts)
    /\ handles' = handles - 1
    /\ ReturnFromFile
    /\ UNCHANGED <<runVars, inspected, mode, pending, children, fileVars, exc>>

(* --------------------------- specification ---------------------------- *)

Next ==
    \/ ResolveTarget
    \/ NoTarget
    \/ GetPasswords
    \/ GetPasswordsFails
    \/ DispatchFile
    \/ DispatchDir
    \/ DispatchNeither
    \/ LoopNext
    \/ LoopEnd
    \/ CheckNotPdf
    \/ CheckIsPdf
    \/ EncOpen
    \/ EncOpenFails
    \/ EncRead
    \/ UnlockTryOpens
    \/ UnlockTryContinues
    \/ UnlockTryRaises
    \/ UnlockSave
    \/ UnlockSaveFails
    \/ UnlockExhausted
    \/ AttOpen
    \/ AttOpenFails
    \/ AttRead
    \/ ExOpen
    \/ ExMissing
    \/ ExBadName
    \/ ExSkip
    \/ ExAccept
    \/ ExWrite
    \/ ExWriteOpenFails
    \/ ExWriteReadFails
    \/ ExEnd

Spec == Init /\ [][Next]_vars

(* ------------------- the script run again on its file ------------------ *)

\* lines 200-201 of a later run with the same target and the same password
\* file: process_pdf_file is called on the same path with the same list, and
\* finds the file as the earlier call left it
ProcessAgain ==
    /\ pc = "done"
    /\ mode = "file"
    /\ file_path \in finished
    /\ calls < MaxCalls
    /\ EnterFile(file_path, doc)
    /\ pc' = "check_pdf"
    /\ UNCHANGED <<runVars, inspected, dirVars, handles, exc>>

NextAgain == Next \/ ProcessAgain

SpecAgain == Init /\ [][NextAgain]_vars

(* ----------------------- get_passwords on its own ---------------------- *)

\* the lines of the password files get_passwords is examined on: passwords
\* bare, with blanks or a tab around them and with a blank inside, and lines
\* that are empty or hold only a blank
PwLinesWide == PwLines \cup { <<"y">>, <<" ">>, <<"\t", "x">>, <<"x", " ", "y">> }

\* the texts of those files: every line terminated by a newline, or the
\* last one left unterminated
PwTextsWide ==
    LET whole == {JoinLines(ls) : ls \in SeqsUpTo(PwLinesWide, MaxPw)}
    IN  whole \cup {SubSeq(t, 1, Len(t) - 1) : t \in whole \ {<<>>}}

\* the script at line 199, its target resolved from an argument, before a
\* password file with a known text
InitPasswords ==
    /\ pc = "load"
    /\ env = NotGiven
    /\ arg = Given(<<"/", "i">>)
    /\ src_file_path = ResolvedTarget(env, arg)
    /\ passwords = <<>>
    /\ loads = 0
    /\ pw_text \in PwTextsWide
    /\ inspected = FALSE
    /\ mode = ""
    /\ pending = {}
    /\ children = {}
    /\ finished = {}
    /\ file_path = None
    /\ calls = 0
    /\ doc = NoDoc
    /\ orig = NoDoc
    /\ pwi = 0
    /\ success = FALSE
    /\ atts = <<>>
    /\ ai = 0
    /\ trg_file_path = None
    /\ written = <<>>
    /\ log = <<>>
    /\ handles = 0
    /\ exc = ""

\* line 199: get_passwords reads that text
GetPasswordsOfText ==
    /\ pc = "load"
    /\ passwords' = get_passwords(pw_text)
    /\ loads' = loads + 1
    /\ pc' = "dispatch"
    /\ UNCHANGED <<env, pw_text, arg, src_file_path, inspected, dirVars, fileVars,
                   handles, exc>>

NextPasswords == GetPasswordsOfText

SpecPasswords == InitPasswords /\ [][NextPasswords]_vars

(* ------------------------- reading the log ---------------------------- *)

\* the events of log l that carry tag t, in order
Events(l, t) == SelectSeq(l, LAMBDA e : e[1] = t)

Has(l, e) == \E i \in 1..Len(l) : l[i] = e

\* the passwords unlock_pdf tried to open the document with, in order
Tried == [i \in 1..Len(Events(log, "try")) |-> Events(log, "try")[i][2]]

\* first (1-based) position of pw in the list ps, 0 when absent
FirstIndex(ps, pw) ==
    LET hits == {i \in 1..Len(ps) : ps[i] = pw}
    IN  IF hits = {} THEN 0 ELSE CHOOSE i \in hits : \A j \in hits : i <= j

\* process_pdf_file called unlock_pdf for the current file
UnlockCalled == Has(log, <<"is_pdf_encrypted", TRUE>>)

\* unlock_pdf was called and is over, by a return or by an exception
UnlockOver == UnlockCalled /\ pc \notin {"unlock", "unlock_save"}

\* the extraction has not begun: nothing but unlock_pdf can have written
BeforeExtraction == ~Has(log, <<"extract">>)

\* process_pdf_file was entered for file_path and is over
FileOver == file_path # None /\ pc \in {"loop", "done", "crashed"}

(* ------------------------------- claims ------------------------------- *)

\* the document process_pdf_file was entered with is encrypted and its
\* password first appears at position n of the list
KeyFirstAt(n) ==
    /\ orig.kind \in {"locked", "owneronly"}
    /\ n > 0
    /\ FirstIndex(passwords, orig.key) = n

\* C1: for an encrypted document whose password first appears at position
\* N of the list, once unlock_pdf is over it has made exactly N open
\* attempts, with the first N passwords in list order and none after; and
\* unless the save itself raised, the file was rewritten exactly once, right
\* after the N-th attempt, and is_pdf_encrypted on what unlock_pdf left
\* answers false.
C1_UnlockStopsAtFirstMatch ==
    \A n \in 1..Len(passwords) :
        (KeyFirstAt(n) /\ UnlockOver) =>
            /\ Tried = SubSeq(passwords, 1, n)
            /\ ~Has(log, <<"save_error">>) =>
                  /\ Len(Events(log, "save")) = 1
                  /\ \E k \in 1..(Len(log) - 1) :
                        /\ log[k] = <<"try", passwords[n]>>
                        /\ Len(Events(SubSeq(log, 1, k), "try")) = n
                        /\ log[k + 1] = <<"save">>
                  /\ BeforeExtraction =>
                        /\ doc = Saved(orig)
                        /\ ~is_pdf_encrypted(doc)

\* C1 witness: the password is the second of the list and unlock_pdf has
\* returned after saving
C1_Witness ==
    /\ KeyFirstAt(2)
    /\ success
    /\ pc = "att_open"

\* no password of the list opens the document process_pdf_file was entered with
NoPasswordOpens ==
    \A i \in 1..Len(passwords) : OpenWithPassword(orig, passwords[i]) # "ok"

\* C2: if no password of the list opens the document, then once unlock_pdf
\* is over it has made exactly len(passwords) open attempts, has reported
\* the failure, and it has left the source file unchanged.
C2_ExhaustedListFailsCleanly ==
    (UnlockOver /\ NoPasswordOpens) =>
        /\ Len(Tried) = Len(passwords)
        /\ Has(log, <<"unlock_failed">>)
        /\ BeforeExtraction => doc = orig

\* C3: a decryption trial that fails with an error other than a wrong
\* password (the open raises on a broken document, the save raises) never
\* ends the script: unlock_pdf moves on.
C3_OtherErrorsMoveOn ==
    ~(/\ pc = "crashed"
      /\ log # <<>>
      /\ Last(log)[1] \in {"try", "save_error"})

\* C4: in directory mode the run never ends while results of the glob are
\* still unprocessed.
C4_DirectoryRunCompletes ==
    (mode = "dir" /\ pc \in {"done", "crashed", "exit1"}) => pending = {}

\* C5: for a file with the PDF extension, once process_pdf_file is over the
\* attachment check has been made, and the extraction has run exactly when
\* the check answered true.
C5_AttachmentStageAlwaysRuns ==
    (FileOver /\ is_pdf(file_path)) =>
        /\ \E r \in BOOLEAN : Has(log, <<"pdf_has_attachments", r>>)
        /\ Has(log, <<"extract">>) <=> Has(log, <<"pdf_has_attachments", TRUE>>)

\* C6: when the document cannot be opened, is_pdf_encrypted answers true
\* (process_pdf_file goes to unlock_pdf) and pdf_has_attachments answers
\* false (process_pdf_file returns); neither raises, neither changes the
\* source file or writes any other file, and no handle is left open.
C6_FailSafeDefaults ==
    [][/\ (pc = "enc_open" /\ ~OpensWithoutPassword(doc)) =>
            /\ log' = Append(log, <<"is_pdf_encrypted", TRUE>>)
            /\ pc' = "unlock"
            /\ <<exc, doc, written, handles>>' = <<exc, doc, written, handles>>
       /\ (pc = "att_open" /\ ~OpensWithoutPassword(doc)) =>
            /\ log' = Append(log, <<"pdf_has_attachments", FALSE>>)
            /\ pc' = AfterFile
            /\ <<exc, doc, written, handles>>' = <<exc, doc, written, handles>>
      ]_vars

\* C6 witness: a document that cannot be opened and carries attachments got
\* both default answers
C6_Witness ==
    /\ ~OpensWithoutPassword(doc)
    /\ doc.natt > 0
    /\ Has(log, <<"is_pdf_encrypted", TRUE>>)
    /\ Has(log, <<"pdf_has_attachments", FALSE>>)
    /\ pc = "done"

\* the extraction of the current file was started and is over
ExtractOver == FileOver /\ Has(log, <<"extract">>)

\* C7: once an extraction is over, a file was written for every attachment
\* that resolves to a PDF filename (unless its write failed), and for no
\* other attachment; the others that resolve or are missing were reported.
C7_ExactlyPdfAttachmentsWritten ==
    ExtractOver =>
        \A i \in 1..Len(atts) :
            /\ (IsPdfAttachment(atts[i]) /\ ~Has(log, <<"write_error", i>>))
                  => Has(log, <<"written", i>>)
            /\ Has(log, <<"written", i>>) => IsPdfAttachment(atts[i])
            /\ (atts[i].kind = "ok" /\ ~IsPdfAttachment(atts[i]))
                  => Has(log, <<"skipped", i>>)
            /\ atts[i].kind = "missing" => Has(log, <<"unresolved", i>>)

\* the loop of line 121 came to attachment i
Examined(i) ==
    \E t \in {"unresolved", "name_error", "skipped", "written", "write_error"} :
        Has(log, <<t, i>>)

\* C8: once an extraction is over every attachment of the collection has
\* been examined, whatever happened to the attachments before it.
C8_FailuresDoNotAbortExtraction ==
    ExtractOver => \A i \in 1..Len(atts) : Examined(i)

\* C9: the password list is read at most once; while it has not been read,
\* no target has been looked at, no file entered, opened or written; whatever
\* the script did to a target or a file, it did after exactly one complete
\* read; and a failed read ends the script.
C9_PasswordsLoadedFirst ==
    /\ loads <= 1
    /\ loads = 0 =>
          /\ ~inspected
          /\ file_path = None
          /\ log = <<>>
          /\ written = <<>>
          /\ handles = 0
          /\ pc \in {"resolve", "load", "exit1", "crashed"}
    /\ (inspected \/ file_path # None \/ log # <<>>) => loads = 1

\* C9 witness: the read of the password file failed and ended the script
C9_Witness ==
    /\ pc = "crashed"
    /\ exc = "OSError"
    /\ loads = 0
    /\ src_file_path \in FileTargets

\* C10: for a path without the PDF extension process_pdf_file makes no
\* encryption check, no decryption attempt, no attachment check and no
\* extraction, opens and changes nothing, and returns.
C10_NonPdfUntouched ==
    (file_path # None /\ ~is_pdf(file_path)) =>
        /\ pc \in {"check_pdf", "loop", "done"}
        /\ pc # "check_pdf" => (log = <<<<"not_a_pdf">>>> /\ file_path \in finished)
        /\ pc = "check_pdf" => log = <<>>
        /\ doc = orig
        /\ written = <<>>
        /\ handles = 0
        /\ exc = ""

\* C10 witness: process_pdf_file returned for a file named n.txt
C10_Witness ==
    /\ file_path # None
    /\ ~is_pdf(file_path)
    /\ file_path \in finished
    /\ pc = "done"

\* process_pdf_file was entered with a PDF that opens, is not encrypted and
\* has no attachments
PlainWithoutAttachments ==
    /\ file_path # None
    /\ is_pdf(file_path)
    /\ orig.kind = "plain"
    /\ orig.natt = 0

\* C11: for a PDF that opens, is not encrypted and has no attachments,
\* process_pdf_file never calls unlock_pdf (no password is tried, whatever
\* the list holds) and never calls extract_pdf_attachments; the source file
\* and the destination directory stay as they were.
C11_PlainPdfPassesThrough ==
    PlainWithoutAttachments =>
        /\ pc \notin {"unlock", "unlock_save", "ex_open", "ex_iter", "ex_write"}
        /\ Tried = <<>>
        /\ ~Has(log, <<"save">>)
        /\ ~Has(log, <<"unlock_failed">>)
        /\ ~Has(log, <<"extract">>)
        /\ doc = orig
        /\ written = <<>>
        /\ exc = ""

\* C11 witness: process_pdf_file returned for such a PDF, both checks made,
\* with a password list that is not empty
C11_Witness ==
    /\ PlainWithoutAttachments
    /\ passwords # <<>>
    /\ file_path \in finished
    /\ log = << <<"is_pdf_encrypted", FALSE>>, <<"pdf_has_attachments", FALSE>> >>

\* process_pdf_file runs again on a file that an earlier call decrypted: the
\* file it is entered with is the product of that call's save
EnteredWithDecrypted == calls >= 2 /\ orig.rev >= 1

\* C12: process_pdf_file run a second time on a file that a first run
\* decrypted, with the same password list, finds it unencrypted: it makes
\* no open attempt with a password and does not rewrite the file.
C12_SecondRunLeavesDecryptedFile ==
    EnteredWithDecrypted =>
        /\ pc \notin {"unlock", "unlock_save"}
        /\ ~UnlockCalled
        /\ Tried = <<>>
        /\ ~Has(log, <<"save">>)
        /\ BeforeExtraction => doc = orig

\* C12 witness: the second call on a file the first call decrypted with a
\* password of the list has made its encryption check
C12_Witness ==
    /\ EnteredWithDecrypted
    /\ passwords # <<>>
    /\ Has(log, <<"is_pdf_encrypted", FALSE>>)
    /\ pc = "done"

\* path p lies below directory dir: it continues dir's components and none of
\* the further ones steps back up
Inside(dir, p) ==
    /\ p.abs = dir.abs
    /\ Len(p.parts) > Len(dir.parts)
    /\ SubSeq(p.parts, 1, Len(dir.parts)) = dir.parts
    /\ \A i \in (Len(dir.parts) + 1)..Len(p.parts) : p.parts[i] # <<".", ".">>

\* C13: every file the extraction creates or overwrites lies inside the
\* destination directory, whatever filename the attachment stores.
C13_WrittenInsideConsumeDir ==
    \A p \in DOMAIN written : Inside(ConsumeDir, p)

\* C14: once the target is resolved it is DOCUMENT_WORKING_PATH whenever
\* that is set and not empty, whatever the positional argument; otherwise it
\* is the positional argument; and with neither the script has ended with
\* exit status 1 without reading the password file or touching any file.
C14_TargetResolution ==
    pc # "resolve" =>
        /\ (env.given /\ env.text # <<>>) => src_file_path = PathOf(env.text)
        /\ (~(env.given /\ env.text # <<>>) /\ arg.given /\ arg.text # <<>>) =>
              src_file_path = PathOf(arg.text)
        /\ (~(env.given /\ env.text # <<>>) /\ ~(arg.given /\ arg.text # <<>>)) =>
              /\ pc = "exit1"
              /\ src_file_path = None
              /\ loads = 0
              /\ ~inspected
              /\ file_path = None
              /\ handles = 0

\* C14 witness: the variable and the argument name different paths and the
\* script has run to its end on the file the variable names
C14_Witness ==
    /\ env.given /\ env.text # <<>>
    /\ arg.given /\ arg.text # <<>>
    /\ env.text # arg.text
    /\ pc = "done"
    /\ file_path = PathOf(env.text)
    /\ file_path \in finished

\* the events of the decryption stage and of the attachment stage
UnlockEvents == {"is_pdf_encrypted", "try", "save", "save_error", "unlock_failed"}
AttachmentEvents == {"pdf_has_attachments", "extract", "unresolved", "name_error",
                     "skipped", "written", "write_error"}

\* process_pdf_file was entered with a PDF that is encrypted, carries
\* attachments, and whose password is in the list
EncryptedWithKeyAndAttachments ==
    /\ file_path # None
    /\ is_pdf(file_path)
    /\ orig.natt > 0
    /\ \E n \in 1..Len(passwords) : KeyFirstAt(n)

\* C15: the attachment check and the extraction come after everything the
\* decryption stage does, and start on a document opened anew (no handle of
\* the decryption stage is still open). So for an encrypted PDF that carries
\* attachments and whose password is in the list, one process_pdf_file run,
\* unless its save raised, has saved the file decrypted, then found the
\* attachments on the saved file and run the extraction; and unless a record
\* of the collection raised, every PDF attachment was written or its write
\* failure reported.
C15_ExtractionFollowsDecryption ==
    /\ \A i, j \in 1..Len(log) :
          (log[i][1] \in AttachmentEvents /\ log[j][1] \in UnlockEvents) => j < i
    /\ pc \in {"att_open", "ex_open"} => handles = 0
    /\ (EncryptedWithKeyAndAttachments /\ FileOver /\ ~Has(log, <<"save_error">>)) =>
          /\ \E k \in 1..(Len(log) - 2) :
                /\ log[k] = <<"save">>
                /\ log[k + 1] = <<"pdf_has_attachments", TRUE>>
                /\ log[k + 2] = <<"extract">>
          /\ Len(atts) = orig.natt
          /\ (\A i \in 1..Len(atts) : ~Has(log, <<"name_error", i>>)) =>
                \A i \in 1..Len(atts) :
                    IsPdfAttachment(atts[i]) =>
                        Has(log, <<"written", i>>) \/ Has(log, <<"write_error", i>>)

\* C15 witness: one run on a document that only its password opens has
\* saved it and then written a PDF attachment of it
C15_Witness ==
    /\ orig.kind = "locked"
    /\ EncryptedWithKeyAndAttachments
    /\ pc = "done"
    /\ doc = Saved(orig)
    /\ Has(log, <<"save">>)
    /\ \E i \in 1..Len(atts) : IsPdfAttachment(atts[i]) /\ Has(log, <<"written", i>>)

\* C16: the content of the source file changes only in the step in which a
\* decryption trial saves it: no inspection, no failed trial and no step of
\* the extraction changes it, whatever the attachment filenames are.
C16_OnlyTheSaveWritesTheSource ==
    [][(file_path' = file_path /\ calls' = calls /\ doc' # doc) =>
          /\ pc = "unlock_save"
          /\ log' = Append(log, <<"save">>)
          /\ doc' = Saved(doc)
      ]_vars

\* the positions inside a with block of pikepdf.open: lines 73, 100-103, 84
\* and 120-139
InsideWith == {"enc_read", "unlock_save", "att_read", "ex_iter", "ex_write"}

\* C17: at most one document handle is open in any state: exactly one
\* inside an inspection, an unlock trial or the extraction, and none once
\* the operation has returned or raised; in particular the trial's handle
\* is closed in the step that saves, before anything reads the file again.
C17_HandleDiscipline ==
    /\ handles \in {0, 1}
    /\ handles = 1 <=> pc \in InsideWith
    /\ (log # <<>> /\ Last(log)[1] \in {"save", "save_error"}) =>
          (handles = 1 <=> pc = "att_read")

\* C17 witness: a save raised inside the with block and the script ended
\* with the document closed
C17_Witness ==
    /\ pc = "crashed"
    /\ log # <<>>
    /\ Last(log) = <<"save_error">>
    /\ handles = 0

\* the path of direct child n of the target directory
ChildPath(n) == PathJoin(InDir, PathOf(n))

\* C18: when a directory run has come to its end, process_pdf_file has been
\* run for every direct child that is_pdf accepts (the extension compared
\* without regard to case), and for no path that is not a direct child.
C18_EveryPdfChildProcessed ==
    (mode = "dir" /\ pc = "done") =>
        /\ \A n \in children : is_pdf(PathOf(n)) => ChildPath(n) \in finished
        /\ finished \subseteq {ChildPath(n) : n \in children}

\* the positions of the line breaks of a text, and the k-th of them
Breaks(text) == {i \in 1..Len(text) : text[i] = "\n"}
NthBreak(text, k) ==
    CHOOSE i \in Breaks(text) : Cardinality({j \in Breaks(text) : j <= i}) = k

\* the number of lines of a text: one for each line break and one for what
\* follows the last break, if anything does
NumLines(text) ==
    Cardinality(Breaks(text))
        + (IF text # <<>> /\ Last(text) # "\n" THEN 1 ELSE 0)

\* the k-th line of a text, without its line break
LineOf(text, k) ==
    LET from == IF k = 1 THEN 1 ELSE NthBreak(text, k - 1) + 1
        to   == IF k <= Cardinality(Breaks(text))
                    THEN NthBreak(text, k) - 1 ELSE Len(text)
    IN  SubSeq(text, from, to)

\* s from its first to its last character that is not white space
Trimmed(s) ==
    LET ink == {i \in 1..Len(s) : s[i] \notin {" ", "\t"}}
    IN  IF ink = {} THEN <<>>
        ELSE SubSeq(s, CHOOSE i \in ink : \A j \in ink : i <= j,
                       CHOOSE i \in ink : \A j \in ink : j <= i)

\* C19: get_passwords returns exactly the lines of the text, each without
\* its leading and trailing white space, with the lines that are empty after
\* that left out, in the order of the text and with repeated lines kept; no
\* entry of the result is the empty string.
C19_PasswordsAreTheStrippedLines ==
    pc = "dispatch" =>
        LET lines == [k \in 1..NumLines(pw_text) |-> Trimmed(LineOf(pw_text, k))]
            kept  == {k \in 1..NumLines(pw_text) : lines[k] # <<>>}
            nth(i) == CHOOSE k \in kept : Cardinality({j \in kept : j <= k}) = i
        IN  /\ Len(passwords) = Cardinality(kept)
            /\ \A i \in 1..Len(passwords) : passwords[i] = lines[nth(i)]
            /\ \A i \in 1..Len(passwords) : passwords[i] # <<>>

\* C19 witness: a text of two lines that differ only in their white space
\* gave the same password twice
C19_Witness ==
    /\ pc = "dispatch"
    /\ Len(passwords) = 2
    /\ passwords[1] = passwords[2]
    /\ LineOf(pw_text, 1) # LineOf(pw_text, 2)

\* the attachments of the collection whose write to path p completed
WrittenTo(p) ==
    {i \in 1..Len(atts) : /\ Has(log, <<"written", i>>)
                          /\ TrgFilePath(atts[i]) = p}

\* C20: when PDF attachments of one document share a filename they go to
\* the same destination path, and once the extraction has run through the
\* collection that path holds the content of the last of them that was
\* written.
C20_LastWriteWins ==
    (ExtractOver /\ pc # "crashed") =>
        \A p \in DOMAIN written :
            WrittenTo(p) # {} =>
                written[p] = Bytes(PathName(file_path),
                                   CHOOSE i \in WrittenTo(p) :
                                       \A j \in WrittenTo(p) : j <= i)

====
